---- MODULE Spec2Model ----
(***************************************************************************)
(* The retrieval-augmented chat-completion gateway of Ragged_AGI:          *)
(* src/mini-litellm-groq.py (passthrough backend) and                      *)
(* src/mini-litellm-ollama.py (translating backend).  One request is       *)
(* followed from chat_completions through get_rag_context to the backend   *)
(* call and the streamed or plain response (Spec); several requests are    *)
(* handled side by side in TasksSpec.  The vector store is opened as       *)
(* get_chroma_db of src/main.py opens it.                                  *)
(*                                                                         *)
(* Text is a sequence of tokens; "\n" is a token, so joins are visible.    *)
(***************************************************************************)
EXTENDS Integers, Sequences, FiniteSets, TLC

\* ------------------------------------------------------------------ bounds
MaxMsgs == 2
MaxLines == 3
NumTasks == 2

\* --------------------------------------------------------------- constants
\* search_kwargs={"k": 2}
K == 2

GROQ_MODEL == "llama-3.1-8b-instant"
OLLAMA_MODEL == "qwen2:1.5b"

Null == "null"
None == [none |-> TRUE]
NL == "\n"

\* ------------------------------------------------------------ text helpers
RECURSIVE Join(_, _)
\* sep.join(parts) of Python, on token sequences
Join(parts, sep) ==
    IF Len(parts) = 0 THEN <<>>
    ELSE IF Len(parts) = 1 THEN parts[1]
    ELSE parts[1] \o sep \o Join(Tail(parts), sep)

RECURSIVE Concat(_)
Concat(parts) == IF Len(parts) = 0 THEN <<>> ELSE parts[1] \o Concat(Tail(parts))

SeqsUpTo(S, n) == UNION {[1..k -> S] : k \in 0..n}

Min(a, b) == IF a < b THEN a ELSE b

\* ------------------------------------------------------- inbound requests
\* the messages requests are built from
ChatMessage ==
    {[role |-> "user", content |-> <<"q1">>],
     [role |-> "user", content |-> <<"q2">>],
     [role |-> "assistant", content |-> <<"r1">>],
     [role |-> "system", content |-> <<"s1">>]}

\* conversations of up to n messages, no message said twice
Conversations(n) ==
    {m \in SeqsUpTo(ChatMessage, n) :
        \A i, j \in 1..Len(m) : i # j => m[i] # m[j]}

\* what a body without the `messages` key carries under another key
Stray == <<[role |-> "user", content |-> <<"q1">>]>>

\* request.json: a dict whose keys may be missing.  The conversation is the
\* value of `messages` when that key is present, and sits under another key,
\* invisible to data.get('messages', ...), when it is not
Requests ==
    {[keys |-> k,
      messages |-> IF "messages" \in k THEN m ELSE Stray,
      stream |-> IF "stream" \in k THEN s ELSE FALSE,
      model |-> Null,
      params |-> {}] :
        k \in SUBSET {"messages", "stream"},
        m \in Conversations(MaxMsgs),
        s \in BOOLEAN}

\* the optional parameters chat_completions looks for
SamplingParams ==
    {"temperature", "max_tokens", "top_p", "frequency_penalty",
     "presence_penalty"}

\* parameters as a request may carry them, each a pair of name and value;
\* no value is checked, so one of them is not a number
ParamValues ==
    {<<"temperature", "0.7">>, <<"temperature", "hot">>}
    \cup {<<n, "1">> : n \in SamplingParams \ {"temperature"}}

\* the parameters of one request: at most one value for a name
ParamSets ==
    {ps \in SUBSET ParamValues :
        \A x, y \in ps : x[1] = y[1] => x = y}

\* requests that name a model of their own and carry parameters
ParamRequests ==
    {[keys |-> {"messages", "stream"} \cup mk,
      messages |-> <<[role |-> "user", content |-> <<"q1">>]>>,
      stream |-> st,
      model |-> IF mk = {} THEN Null ELSE "gpt-4",
      params |-> ps] :
        mk \in {{}, {"model"}}, st \in BOOLEAN, ps \in ParamSets}

\* `if param in data: groq_payload[param] = data[param]`, for every param
ForwardedParams(d) == {x \in d.params : x[1] \in SamplingParams}

\* a lookup that finds the conversation under whatever key it came
GetMessagesAnyKey(d) == d.messages

\* data.get('messages', [])
GetMessages(d) == IF "messages" \in d.keys THEN d.messages ELSE <<>>

\* data.get('stream', False)
GetStream(d) == IF "stream" \in d.keys THEN d.stream ELSE FALSE

RECURSIVE FirstUser(_)
\* next((msg['content'] for msg in messages if msg['role'] == 'user'), "")
FirstUser(msgs) ==
    IF Len(msgs) = 0 THEN <<>>
    ELSE IF msgs[1].role = "user" THEN msgs[1].content
    ELSE FirstUser(Tail(msgs))

UserQuery(d) == FirstUser(GetMessages(d))

\* ---------------------------------------------- registry and vector store
\* the rows of the collections table, in SELECT order (id is PRIMARY KEY)
Registries == {<<>>, <<"B">>, <<"A", "B">>, <<"B", "A">>}

\* the ids a registry lists
Ids(reg) == {reg[i] : i \in 1..Len(reg)}

\* a vector store: the names of its collections, each with documents
\* ("filled") or without ("empty")
Filled(names) == [c \in names |-> "filled"]

\* the vector stores that exist beside a registry: one filled collection per
\* row, or, beside the rows A, B, B's alone: A's collection is gone while
\* its row is still listed
VectorStores(reg) ==
    {Filled(Ids(reg))} \cup (IF reg = <<"A", "B">> THEN {Filled({"B"})} ELSE {})

\* the vector store's ranking of a collection's passages for a query: A
\* holds three passages, B one, which is also in A
Ranked(c, q) ==
    IF c = "A"
    THEN (IF q = <<"q2">> THEN <<"a2", "a1", "a3">> ELSE <<"a1", "a2", "a3">>)
    ELSE <<"a1">>

\* a retriever that returns one passage more than search_kwargs asks for
TopKPlusOne(c, q) == SubSeq(Ranked(c, q), 1, Min(K + 1, Len(Ranked(c, q))))

\* retriever.get_relevant_documents(query) with search_kwargs k
TopK(c, q) == SubSeq(Ranked(c, q), 1, Min(K, Len(Ranked(c, q))))

\* Chroma(persist_directory=..., collection_name=c) opens the collection
\* named c and creates it, empty, when the store has none of that name
GetChromaDb(store, c) ==
    [n \in DOMAIN store \cup {c} |->
        IF n \in DOMAIN store THEN store[n] ELSE "empty"]

\* the documents the retriever of get_chroma_db(c) returns: none from a
\* collection that was only just created
Retrieved(store, c, q) ==
    IF c \in DOMAIN store /\ store[c] = "filled" THEN TopK(c, q) ELSE <<>>

\* [doc.page_content for doc in docs]
PageContents(docs) == [i \in 1..Len(docs) |-> <<docs[i]>>]

\* "\n\n".join(contexts)
RagContext(ctxs) == Join(ctxs, <<NL, NL>>)

\* ------------------------------------------------------------ augmentation
SystemPrefix == "Use the following context to answer the user's question:"

SystemMessage(ctx) ==
    [role |-> "system", content |-> <<SystemPrefix, NL, NL>> \o ctx]

\* f"{msg['role']}: {msg['content']}"
PromptLine(msg) == <<msg.role, ": ">> \o msg.content

\* a prompt that ends every line, the last one too, with a newline
PromptNewlineEnded(msgs) ==
    Concat([i \in 1..Len(msgs) |-> PromptLine(msgs[i]) \o <<NL>>])

\* "\n".join([... for msg in messages])
Prompt(msgs) == Join([i \in 1..Len(msgs) |-> PromptLine(msgs[i])], <<NL>>)

\* a payload in which the synthetic system message replaces the inbound ones
GroqPayloadOneSystem(d, ctx) ==
    [model |-> GROQ_MODEL,
     messages |-> <<SystemMessage(ctx)>> \o
                  SelectSeq(GetMessages(d), LAMBDA msg : msg.role # "system"),
     stream |-> GetStream(d),
     params |-> ForwardedParams(d)]

\* a payload that carries the system message only when there is context
GroqPayloadIfContext(d, ctx) ==
    [model |-> GROQ_MODEL,
     messages |-> (IF ctx = <<>> THEN <<>> ELSE <<SystemMessage(ctx)>>)
                  \o GetMessages(d),
     stream |-> GetStream(d),
     params |-> ForwardedParams(d)]

GroqPayload(d, ctx) ==
    [model |-> GROQ_MODEL,
     messages |-> <<SystemMessage(ctx)>> \o GetMessages(d),
     stream |-> GetStream(d),
     params |-> ForwardedParams(d)]

\* a payload that names the model the request asked for
OllamaPayloadInboundModel(d, ctx) ==
    [model |-> IF "model" \in d.keys THEN d.model ELSE OLLAMA_MODEL,
     prompt |-> Prompt(<<SystemMessage(ctx)>> \o GetMessages(d)),
     stream |-> GetStream(d),
     params |-> {}]

\* model, prompt and stream, and no other key
OllamaPayload(d, ctx) ==
    [model |-> OLLAMA_MODEL,
     prompt |-> Prompt(<<SystemMessage(ctx)>> \o GetMessages(d)),
     stream |-> GetStream(d),
     params |-> {}]

\* ----------------------------------------------------- inference backend
\* what requests.post meets: a network failure, or an HTTP answer
StatusesErr == {429, 502}

\* a dict parsed from JSON: the keys present, and the values of the two the
\* gateway reads
Obj(keys, r, d) == [keys |-> keys, response |-> r, done |-> d]

\* pieces of generated text
Pieces == {<<"a">>, <<"b">>}
Gens == {<<>>, <<"a">>, <<"a", "b">>}

GroqCompletion(g, fin) ==
    [object |-> "chat.completion",
     message |-> [role |-> "assistant", content |-> g],
     finish_reason |-> fin]

ErrorBody == [error |-> "backend error"]

\* answers to a non-streaming call; json says whether response.json() parses
NormalAnswers(v) ==
    {[net |-> "fail", status |-> 0, json |-> FALSE, body |-> None]}
    \cup (IF v = "groq"
          THEN {[net |-> "ok", status |-> 200, json |-> TRUE,
                 body |-> GroqCompletion(g, fin)] :
                    g \in Gens, fin \in {"stop", "length"}}
          ELSE {[net |-> "ok", status |-> 200, json |-> TRUE,
                 body |-> Obj({"response", "done"}, g, TRUE)] : g \in Gens})
    \cup {[net |-> "ok", status |-> s, json |-> TRUE,
           body |-> IF v = "groq" THEN ErrorBody ELSE Obj({"error"}, <<>>, FALSE)] :
              s \in StatusesErr}
    \cup {[net |-> "ok", status |-> 502, json |-> FALSE, body |-> None]}

\* answers to the streaming call's requests.post(..., stream=True)
StreamAnswers ==
    {[net |-> "fail", status |-> 0], [net |-> "ok", status |-> 200],
     [net |-> "ok", status |-> 429]}

\* one line of response.iter_lines(): an SSE prefix (passthrough backend) and
\* a body
EmptyLine == [sse |-> "", body |-> [lit |-> ""]]
DoneLit == [lit |-> "[DONE]"]
SSE(b) == [sse |-> "data: ", body |-> b]
NDJSON(b) == [sse |-> "", body |-> b]

GroqChunk(c, fin) ==
    [object |-> "chat.completion.chunk", delta |-> c, finish_reason |-> fin]

\* lines of a 200 answer: blank lines, chunks, the backend's end marker
GroqLines ==
    {EmptyLine, SSE(DoneLit)} \cup {SSE(GroqChunk(p, Null)) : p \in Pieces}

OllamaLines ==
    {EmptyLine, NDJSON(Obj({"response", "done"}, <<>>, TRUE)),
     NDJSON([lit |-> "not json"])}
    \cup {NDJSON(Obj({"response", "done"}, p, FALSE)) : p \in Pieces}

\* lines of a non-2xx answer: its error body
ErrorLines(v) ==
    {EmptyLine,
     NDJSON(IF v = "groq" THEN ErrorBody ELSE Obj({"error"}, <<>>, FALSE))}

BackendLines(v, a) ==
    IF a.status # 200 THEN ErrorLines(v)
    ELSE IF v = "groq" THEN GroqLines ELSE OllamaLines

\* the backend's own end-of-generation marker
IsFinal(line) ==
    \/ line = SSE(DoneLit)
    \/ ("keys" \in DOMAIN line.body /\ "done" \in line.body.keys /\ line.body.done)

HasFinal(lines) == \E i \in 1..Len(lines) : IsFinal(lines[i])

\* the text a deterministic backend generated, read off the lines it streamed
LineText(line) ==
    IF "delta" \in DOMAIN line.body THEN line.body.delta
    ELSE IF "keys" \in DOMAIN line.body /\ "response" \in line.body.keys
         THEN line.body.response
    ELSE <<>>

BackendText(lines) == Concat([i \in 1..Len(lines) |-> LineText(lines[i])])

\* -------------------------------------------------------------- translation
\* json.loads(line) succeeds
JsonLoads(line) == "keys" \in DOMAIN line.body

\* ollama_chunk.get('response', '')
GetResponse(o) == IF "response" \in o.keys THEN o.response ELSE <<>>

\* ollama_chunk.get('done', False)
GetDone(o) == IF "done" \in o.keys THEN o.done ELSE FALSE

\* "chatcmpl-" + os.urandom(12).hex(): the n-th draw of the process.  Two
\* draws of 12 random bytes are taken to differ
CompletionId(n) == [prefix |-> "chatcmpl-", hex |-> n]

\* a chunk built from the key `content`, which the backend never sends
format_chunk_wrong_key(o, n) ==
    [id |-> CompletionId(n),
     object |-> "chat.completion.chunk",
     model |-> OLLAMA_MODEL,
     delta |-> IF "content" \in o.keys THEN o.response ELSE <<>>,
     finish_reason |-> IF GetDone(o) THEN "stop" ELSE Null]

\* a chunk whose finish_reason is never set
format_chunk_never_stops(o, n) ==
    [id |-> CompletionId(n),
     object |-> "chat.completion.chunk",
     model |-> OLLAMA_MODEL,
     delta |-> GetResponse(o),
     finish_reason |-> Null]

format_chunk(o, n) ==
    [id |-> CompletionId(n),
     object |-> "chat.completion.chunk",
     model |-> OLLAMA_MODEL,
     delta |-> GetResponse(o),
     finish_reason |-> IF GetDone(o) THEN "stop" ELSE Null]

\* a completion whose finish_reason is read from the key `done_reason`
format_response_done_reason(o, n) ==
    [id |-> CompletionId(n),
     object |-> "chat.completion",
     model |-> OLLAMA_MODEL,
     message |-> [role |-> "assistant", content |-> o.response],
     finish_reason |-> IF "done_reason" \in o.keys THEN "stop" ELSE Null,
     usage |-> [prompt_tokens |-> -1, completion_tokens |-> -1, total_tokens |-> -1]]

format_response(o, n) ==
    [id |-> CompletionId(n),
     object |-> "chat.completion",
     model |-> OLLAMA_MODEL,
     message |-> [role |-> "assistant", content |-> o.response],
     finish_reason |-> "stop",
     usage |-> [prompt_tokens |-> -1, completion_tokens |-> -1, total_tokens |-> -1]]

Frame(sse, b) == [sse |-> sse, body |-> b, term |-> <<NL, NL>>]

\* yield "data: [DONE]\n\n"
Sentinel == Frame("data: ", DoneLit)

\* yield f"data: {json.dumps(chunk)}\n\n"
OllamaFrame(line, n) == Frame("data: ", format_chunk(line.body, n))

\* yield f"{line.decode('utf-8')}\n\n"
GroqFrame(line) == Frame(line.sse, line.body)

\* `if line:`
Truthy(line) == line # EmptyLine

\* -------------------------------------------------------------------- state
VARIABLES
    variant,       \* which gateway runs: "groq" or "ollama"
    registry,      \* rows of the collections table (ids, in SELECT order)
    pc,            \* where the request is
    data,          \* request.json
    user_query,    \* the retrieval query
    collections,   \* get_all_collections() as read by get_rag_context
    ci,            \* index of the collection the for loop is at
    contexts,      \* the contexts list of get_rag_context
    payload,       \* groq_payload / ollama_payload
    backendCalls,  \* requests.post calls made for this request
    backendAnswer, \* what the backend answered to the call
    backendLines,  \* lines read from response.iter_lines() so far
    frames,        \* frames handed to the client so far
    status,        \* HTTP status of the gateway's response (0: none yet)
    body,          \* body of a non-streaming response
    responses,     \* responses returned for this request
    raised,        \* the exception that ended the request ("": none)
    chroma,        \* the vector store: its collections, filled or empty
    idsDrawn,      \* completion ids drawn from os.urandom so far
    held,          \* frames generate() has built and not yet handed over
    client,        \* the client's connection: "connected" or "gone"
    tasks,         \* the requests handled side by side, each with its locals
    ui             \* the management UI: the flow it is in the middle of

vars == <<variant, registry, pc, data, user_query, collections, ci, contexts,
          payload, backendCalls, backendAnswer, backendLines, frames, status,
          body, responses, raised, chroma, idsDrawn, held, client, tasks,
          ui>>

\* what no step of the request followed alone changes: the gateway that
\* runs, the registry, the requests handled side by side, and the
\* management UI
config == <<variant, registry, tasks, ui>>
retrieval == <<user_query, collections, ci, contexts>>
backend == <<backendCalls, backendAnswer, backendLines>>
reply == <<status, body, responses>>
request == <<data, raised>>
generator == <<idsDrawn, held, client>>

\* the requests handled side by side
Tasks == 1..NumTasks

\* the management UI between two button presses
NoFlow == [flow |-> "none", id |-> Null]

\* the locals of a request that has not arrived
NoTask ==
    [pc |-> "idle", data |-> None, payload |-> None, sent |-> None,
     lines |-> <<>>, frames |-> <<>>, body |-> None]

Init ==
    /\ variant \in {"groq", "ollama"}
    /\ registry \in Registries
    /\ pc = "idle"
    /\ data = None
    /\ user_query = <<>>
    /\ collections = <<>>
    /\ ci = 1
    /\ contexts = <<>>
    /\ payload = None
    /\ backendCalls = 0
    /\ backendAnswer = None
    /\ backendLines = <<>>
    /\ frames = <<>>
    /\ status = 0
    /\ body = None
    /\ responses = 0
    /\ raised = ""
    /\ chroma \in VectorStores(registry)
    /\ idsDrawn = 0
    /\ held = <<>>
    /\ client = "connected"
    /\ tasks = [t \in Tasks |-> NoTask]
    /\ ui = NoFlow

\* ------------------------------------------------------------- the handler
\* chat_completions up to the first statement of get_rag_context's loop:
\* read the body, extract the query, read the registry
ChatCompletions(d) ==
    /\ pc = "idle"
    /\ pc' = "retrieving"
    /\ data' = d
    /\ user_query' = UserQuery(d)
    /\ collections' = registry
    /\ ci' = 1
    /\ contexts' = <<>>
    /\ UNCHANGED <<config, payload, backend, frames, reply, raised, chroma,
                   generator>>

\* one iteration of get_rag_context's loop, the store answering
QueryCollection ==
    /\ pc = "retrieving"
    /\ ci <= Len(collections)
    /\ chroma' = GetChromaDb(chroma, collections[ci])
    /\ contexts' = contexts \o
           PageContents(Retrieved(chroma, collections[ci], user_query))
    /\ ci' = ci + 1
    /\ UNCHANGED <<config, pc, request, user_query, collections, payload,
                   backend, frames, reply, generator>>

\* one iteration of get_rag_context's loop, get_chroma_db or the retriever
\* raising (get_chroma_db before it touched the store, the retriever after):
\* nothing catches it, Flask answers 500
QueryRaises ==
    /\ pc = "retrieving"
    /\ ci <= Len(collections)
    /\ chroma' \in {chroma, GetChromaDb(chroma, collections[ci])}
    /\ pc' = "error"
    /\ raised' = "RetrievalError"
    /\ status' = 500
    /\ responses' = responses + 1
    /\ UNCHANGED <<config, data, retrieval, payload, backend, frames, body,
                   generator>>

\* a handler that does not wait for the loop to end
LoopOverAnytime(i, cols) == TRUE

\* `for collection in collections` has gone through every collection
LoopOver(i, cols) == i > Len(cols)

\* the loop is over: join the contexts, build the payload, branch on stream
Dispatch ==
    /\ pc = "retrieving"
    /\ LoopOver(ci, collections)
    /\ payload' = IF variant = "groq"
                  THEN GroqPayload(data, RagContext(contexts))
                  ELSE OllamaPayload(data, RagContext(contexts))
    /\ IF GetStream(data)
       THEN /\ pc' = "open"
            /\ status' = 200
            /\ responses' = responses + 1
       ELSE /\ pc' = "calling"
            /\ UNCHANGED <<status, responses>>
    /\ UNCHANGED <<config, request, retrieval, backend, frames, body, chroma,
                   generator>>

\* the exception normal_response ends with for an answer ("": none):
\* requests.post, response.json(), ollama_response['response']
NormalRaises(v, a) ==
    IF a.net = "fail" THEN "ConnectionError"
    ELSE IF ~a.json THEN "JSONDecodeError"
    ELSE IF v = "ollama" /\ "response" \notin a.body.keys THEN "KeyError"
    ELSE ""

\* what normal_response returns; the translating gateway draws an id for it
NormalBody(v, a, n) == IF v = "groq" THEN a.body ELSE format_response(a.body, n)

\* normal_response: one requests.post, response.json(), and for the
\* translating backend format_response; Flask answers 200 with the returned
\* dict, 500 when the view raised
NormalResponse(a) ==
    /\ pc = "calling"
    /\ backendCalls' = backendCalls + 1
    /\ backendAnswer' = a
    /\ responses' = responses + 1
    /\ raised' = NormalRaises(variant, a)
    /\ IF NormalRaises(variant, a) # ""
       THEN /\ pc' = "error"
            /\ status' = 500
            /\ body' = None
            /\ UNCHANGED idsDrawn
       ELSE /\ pc' = "responded"
            /\ status' = 200
            /\ body' = NormalBody(variant, a, idsDrawn + 1)
            /\ idsDrawn' = IF variant = "ollama" THEN idsDrawn + 1 ELSE idsDrawn
    /\ UNCHANGED <<config, data, retrieval, payload, backendLines, frames,
                   chroma, held, client>>

\* generate() starts: requests.post(..., stream=True)
StreamPost(a) ==
    /\ pc = "open"
    /\ backendCalls' = backendCalls + 1
    /\ backendAnswer' = a
    /\ IF a.net = "fail"
       THEN pc' = "aborted" /\ raised' = "ConnectionError"
       ELSE pc' = "streaming" /\ UNCHANGED raised
    /\ UNCHANGED <<config, data, retrieval, payload, backendLines, frames, reply,
                   chroma, generator>>

\* a relay that has lost its `if line:` test
LineFramesUnfiltered(v, line, n) ==
    IF v = "groq" THEN <<GroqFrame(line)>>
    ELSE IF Truthy(line) THEN <<OllamaFrame(line, n)>>
    ELSE <<>>

\* what one pass of `for line in response.iter_lines()` builds for a line;
\* the translating gateway draws the n-th id for it
LineFrames(v, line, n) ==
    IF ~Truthy(line) THEN <<>>
    ELSE IF v = "groq" THEN <<GroqFrame(line)>>
    ELSE <<OllamaFrame(line, n)>>

\* whether the pass raises (json.loads on a line that is no JSON)
LineRaises(v, line) == Truthy(line) /\ v = "ollama" /\ ~JsonLoads(line)

\* whether the pass calls format_chunk, which draws an id
DrawsId(v, line) == Truthy(line) /\ v = "ollama" /\ JsonLoads(line)

\* a generator that collects its frames and goes on reading
AfterPassBuffering(fs) == "streaming"

\* where generate() is after a pass that built frames fs: suspended at its
\* yield when there is a frame, back at iter_lines() when there is none
AfterPass(fs) == IF fs = <<>> THEN "streaming" ELSE "yielding"

\* a backend sends no two blank lines in a row
MayFollow(lines, line) ==
    (line = EmptyLine /\ Len(lines) > 0) => lines[Len(lines)] # EmptyLine

\* one pass of the loop of generate(), up to its yield: read a line, build
\* its frame
StreamLine(line) ==
    /\ pc = "streaming"
    /\ Len(backendLines) < MaxLines
    /\ line \in BackendLines(variant, backendAnswer)
    /\ HasFinal(backendLines) => line = EmptyLine
    /\ MayFollow(backendLines, line)
    /\ backendLines' = Append(backendLines, line)
    /\ IF LineRaises(variant, line)
       THEN /\ pc' = "aborted"
            /\ raised' = "JSONDecodeError"
            /\ UNCHANGED <<held, idsDrawn>>
       ELSE /\ pc' = AfterPass(LineFrames(variant, line, idsDrawn + 1))
            /\ held' = held \o LineFrames(variant, line, idsDrawn + 1)
            /\ idsDrawn' = IF DrawsId(variant, line) THEN idsDrawn + 1
                           ELSE idsDrawn
            /\ UNCHANGED raised
    /\ UNCHANGED <<config, data, retrieval, payload, backendCalls, backendAnswer,
                   frames, reply, chroma, client>>

\* a generator that closes its stream with the sentinel twice
ClosingFramesTwice(v) == IF v = "ollama" THEN <<Sentinel, Sentinel>> ELSE <<>>

\* what generate() yields once the loop has ended
ClosingFrames(v) == IF v = "ollama" THEN <<Sentinel>> ELSE <<>>

\* iter_lines() is exhausted: the backend closed the response.  generate()
\* leaves the loop and reaches its last yield, or its end
StreamClose ==
    /\ pc = "streaming"
    /\ held' = held \o ClosingFrames(variant)
    /\ pc' = IF held \o ClosingFrames(variant) = <<>> THEN "done" ELSE "closing"
    /\ UNCHANGED <<config, request, retrieval, payload, backend, frames, reply,
                   chroma, idsDrawn, client>>

\* a generator that is not resumed after its yield
AfterYieldStays(p) == p

\* where generate() goes on when the server resumes it after a yield: back
\* to iter_lines() inside the loop, to its end after the last yield
AfterYield(p) == IF p = "yielding" THEN "streaming" ELSE "done"

\* the yield: the server writes what generate() hands it to the client and
\* resumes the generator; a write to a client that is gone fails, and the
\* server closes the generator at its yield
StreamYield ==
    /\ pc \in {"yielding", "closing"}
    /\ held' = <<>>
    /\ IF client = "connected"
       THEN /\ frames' = frames \o held
            /\ pc' = AfterYield(pc)
       ELSE /\ pc' = "cancelled"
            /\ UNCHANGED frames
    /\ UNCHANGED <<config, request, retrieval, payload, backend, reply, chroma,
                   idsDrawn, client>>

\* iter_lines() raises: the backend connection dropped
StreamFail ==
    /\ pc = "streaming"
    /\ pc' = "aborted"
    /\ raised' = "ChunkedEncodingError"
    /\ UNCHANGED <<config, data, retrieval, payload, backend, frames, reply,
                   chroma, generator>>

\* the client closes its connection while the response is being streamed
ClientDisconnect ==
    /\ pc \in {"streaming", "yielding", "closing"}
    /\ client = "connected"
    /\ client' = "gone"
    /\ UNCHANGED <<config, pc, request, retrieval, payload, backend, frames,
                   reply, chroma, idsDrawn, held>>

Next ==
    \/ \E d \in Requests : ChatCompletions(d)
    \/ QueryCollection
    \/ QueryRaises
    \/ Dispatch
    \/ \E a \in NormalAnswers(variant) : NormalResponse(a)
    \/ \E a \in StreamAnswers : StreamPost(a)
    \/ \E line \in GroqLines \cup OllamaLines \cup ErrorLines(variant) : StreamLine(line)
    \/ StreamClose
    \/ StreamYield
    \/ StreamFail
    \/ ClientDisconnect

Spec == Init /\ [][Next]_vars

\* ------------------------------------------- requests handled side by side
\* Flask's server handles every request in a thread of its own.  What a
\* handler works on are its locals and the closure of its generate(); the
\* module holds constants only.
single == <<pc, data, user_query, collections, ci, contexts, payload,
            backendCalls, backendAnswer, backendLines, frames, status, body,
            responses, raised, held, client>>

\* the requests sent side by side: one user message each, streaming or not
TaskRequests ==
    {[keys |-> {"messages", "stream"},
      messages |-> <<[role |-> "user", content |-> <<q>>]>>,
      stream |-> st,
      model |-> Null,
      params |-> {}] : q \in {"q1", "q2"}, st \in BOOLEAN}

RECURSIVE OpenAll(_, _)
\* the store after get_chroma_db has been called for every row of reg
OpenAll(store, reg) ==
    IF Len(reg) = 0 THEN store
    ELSE OpenAll(GetChromaDb(store, reg[1]), Tail(reg))

\* get_rag_context(query), no query raising
AllContexts(store, reg, q) ==
    Concat([i \in 1..Len(reg) |-> PageContents(Retrieved(store, reg[i], q))])

\* a backend whose generation repeats the end of what it was sent, so that
\* an answer tells which call it answers
EchoText(v, p) ==
    IF v = "groq" THEN p.messages[Len(p.messages)].content
    ELSE <<p.prompt[Len(p.prompt)]>>

EchoLines(v, p) ==
    IF v = "groq"
    THEN <<SSE(GroqChunk(EchoText(v, p), Null)), SSE(DoneLit)>>
    ELSE <<NDJSON(Obj({"response", "done"}, EchoText(v, p), FALSE)),
           NDJSON(Obj({"response", "done"}, <<>>, TRUE))>>

EchoAnswer(v, p) ==
    [net |-> "ok", status |-> 200, json |-> TRUE,
     body |-> IF v = "groq" THEN GroqCompletion(EchoText(v, p), "stop")
              ELSE Obj({"response", "done"}, EchoText(v, p), TRUE)]

\* a payload kept where all requests share it (a module-level variable):
\* here the one of the highest-numbered request that has built one
PayloadShared(ts, t) ==
    ts[CHOOSE u \in DOMAIN ts :
           /\ ts[u].payload # None
           /\ \A w \in DOMAIN ts : ts[w].payload # None => w <= u].payload

\* the payload request t posts: the argument of its own stream_response /
\* normal_response call
PayloadOf(ts, t) == ts[t].payload

\* chat_completions of request t, up to the branch on stream
TaskChatCompletions(t, d) ==
    /\ tasks[t].pc = "idle"
    /\ chroma' = OpenAll(chroma, registry)
    /\ tasks' = [tasks EXCEPT ![t] =
          [@ EXCEPT
             !.pc = IF GetStream(d) THEN "open" ELSE "calling",
             !.data = d,
             !.payload =
                 IF variant = "groq"
                 THEN GroqPayload(d,
                          RagContext(AllContexts(chroma, registry, UserQuery(d))))
                 ELSE OllamaPayload(d,
                          RagContext(AllContexts(chroma, registry, UserQuery(d))))]]
    /\ UNCHANGED <<variant, registry, ui, single, idsDrawn>>

\* generate() of request t starts: requests.post(..., stream=True)
TaskStreamPost(t) ==
    /\ tasks[t].pc = "open"
    /\ tasks' = [tasks EXCEPT ![t] =
          [@ EXCEPT !.pc = "streaming", !.sent = PayloadOf(tasks, t)]]
    /\ UNCHANGED <<variant, registry, ui, single, chroma, idsDrawn>>

\* one pass of the loop of generate() of request t, its yield included
TaskStreamLine(t) ==
    /\ tasks[t].pc = "streaming"
    /\ Len(tasks[t].lines) < Len(EchoLines(variant, tasks[t].sent))
    /\ LET line == EchoLines(variant, tasks[t].sent)[Len(tasks[t].lines) + 1]
       IN /\ tasks' = [tasks EXCEPT ![t] =
                [@ EXCEPT
                   !.lines = Append(@, line),
                   !.frames = @ \o LineFrames(variant, line, idsDrawn + 1)]]
          /\ idsDrawn' = IF DrawsId(variant, line) THEN idsDrawn + 1
                         ELSE idsDrawn
    /\ UNCHANGED <<variant, registry, ui, single, chroma>>

\* the loop of generate() of request t ends
TaskStreamClose(t) ==
    /\ tasks[t].pc = "streaming"
    /\ Len(tasks[t].lines) = Len(EchoLines(variant, tasks[t].sent))
    /\ tasks' = [tasks EXCEPT ![t] =
          [@ EXCEPT !.pc = "done", !.frames = @ \o ClosingFrames(variant)]]
    /\ UNCHANGED <<variant, registry, ui, single, chroma, idsDrawn>>

\* normal_response of request t
TaskNormalResponse(t) ==
    /\ tasks[t].pc = "calling"
    /\ tasks' = [tasks EXCEPT ![t] =
          [@ EXCEPT
             !.pc = "responded",
             !.sent = PayloadOf(tasks, t),
             !.body = NormalBody(variant,
                          EchoAnswer(variant, PayloadOf(tasks, t)),
                          idsDrawn + 1)]]
    /\ idsDrawn' = IF variant = "ollama" THEN idsDrawn + 1 ELSE idsDrawn
    /\ UNCHANGED <<variant, registry, ui, single, chroma>>

TasksNext ==
    \E t \in Tasks :
        \/ \E d \in TaskRequests : TaskChatCompletions(t, d)
        \/ TaskStreamPost(t)
        \/ TaskStreamLine(t)
        \/ TaskStreamClose(t)
        \/ TaskNormalResponse(t)

TasksSpec == Init /\ [][TasksNext]_vars

\* --------------------------------- requests with a model and parameters
\* one registered collection; the backend answers, the client stays
ParamsInit == Init /\ registry = <<"B">>

ParamsNext ==
    \/ \E d \in ParamRequests : ChatCompletions(d)
    \/ QueryCollection
    \/ Dispatch
    \/ \E a \in NormalAnswers(variant) : NormalResponse(a)
    \/ \E a \in StreamAnswers : StreamPost(a)
    \/ \E line \in GroqLines \cup OllamaLines \cup ErrorLines(variant) : StreamLine(line)
    \/ StreamClose
    \/ StreamYield

ParamsSpec == ParamsInit /\ [][ParamsNext]_vars

\* ------------------------------------------- a stream that is let to run
\* streaming requests whose client stays connected; the backend answers
\* the call or does not, sends its lines and closes the response
StreamRequests == {d \in TaskRequests : d.stream}

\* the steps of generate(): the server's thread runs it whenever its next
\* step can be taken
GeneratorStep ==
    \/ \E a \in StreamAnswers : StreamPost(a)
    \/ \E line \in GroqLines \cup OllamaLines \cup ErrorLines(variant) : StreamLine(line)
    \/ StreamClose
    \/ StreamYield

StreamNext ==
    \/ \E d \in StreamRequests : ChatCompletions(d)
    \/ QueryCollection
    \/ Dispatch
    \/ GeneratorStep

StreamSpec == Init /\ [][StreamNext]_vars /\ WF_vars(GeneratorStep)

\* ----------------------------------------- the management UI at work
\* the collection names the UI's user types or selects
CollectionNames == {"A", "B"}

\* the registry's rows without the row of id c
WithoutRow(reg, c) == SelectSeq(reg, LAMBDA r : r # c)

\* the vector store without the collection named c
WithoutCollection(store, c) == [n \in DOMAIN store \ {c} |-> store[n]]

\* "Create Chroma DB", first statement: Chroma.from_documents opens or
\* creates the collection named c and stores the documents in it
CreateChromaDb(c) ==
    /\ ui = NoFlow
    /\ chroma' = [n \in DOMAIN chroma \cup {c} |->
                     IF n = c THEN "filled" ELSE chroma[n]]
    /\ ui' = [flow |-> "create", id |-> c]
    /\ UNCHANGED <<variant, registry, tasks, single, idsDrawn>>

\* "Create Chroma DB", second statement: INSERT OR REPLACE of the row whose
\* id is the collection's name
AddCollection ==
    /\ ui.flow = "create"
    /\ registry' = WithoutRow(registry, ui.id) \o <<ui.id>>
    /\ ui' = NoFlow
    /\ UNCHANGED <<variant, chroma, tasks, single, idsDrawn>>

\* "Delete Collection", first statement, for a row the UI lists:
\* get_chroma_db(c).delete_collection() drops the collection from the store
DeleteChromaCollection(c) ==
    /\ ui = NoFlow
    /\ c \in Ids(registry)
    /\ chroma' = WithoutCollection(GetChromaDb(chroma, c), c)
    /\ ui' = [flow |-> "delete", id |-> c]
    /\ UNCHANGED <<variant, registry, tasks, single, idsDrawn>>

\* "Delete Collection", second statement: DELETE of the row
DeleteSqliteCollection ==
    /\ ui.flow = "delete"
    /\ registry' = WithoutRow(registry, ui.id)
    /\ ui' = NoFlow
    /\ UNCHANGED <<variant, chroma, tasks, single, idsDrawn>>

\* the registry and the store agree when the UI and the gateway start
UiInit == Init /\ chroma = Filled(Ids(registry))

\* the UI's two flows, a statement at a time, beside a request's retrieval
UiNext ==
    \/ \E c \in CollectionNames : CreateChromaDb(c)
    \/ AddCollection
    \/ \E c \in CollectionNames : DeleteChromaCollection(c)
    \/ DeleteSqliteCollection
    \/ \E d \in TaskRequests : ChatCompletions(d)
    \/ QueryCollection
    \/ Dispatch

UiSpec == UiInit /\ [][UiNext]_vars

\* ------------------------------------------------------ reading the state
\* the request is a streaming one whose generator has ended
StreamEnded == pc \in {"done", "aborted"}

\* how often frame f occurs in fs
Count(fs, f) == Cardinality({i \in 1..Len(fs) : fs[i] = f})

\* the frames a client takes for chunks, and the text it assembles from them
IsChunkFrame(f) == "delta" \in DOMAIN f.body

ClientText(fs) ==
    Concat([i \in 1..Len(fs) |->
               IF IsChunkFrame(fs[i]) THEN fs[i].body.delta ELSE <<>>])

\* the non-empty lines among those read
NonEmpty(lines) == SelectSeq(lines, LAMBDA l : l # EmptyLine)

\* the lines among those read that were turned into a frame
Relayed(lines) ==
    SelectSeq(lines, LAMBDA l : l # EmptyLine /\ ~LineRaises(variant, l))

\* frame f is what the gateway owes the client for backend line l
FrameMatches(f, l) ==
    /\ f.term = <<NL, NL>>
    /\ IF variant = "groq"
       THEN f.sse = l.sse /\ f.body = l.body
       ELSE /\ f.sse = "data: "
            /\ IsChunkFrame(f)
            /\ f.body.delta = LineText(l)
            /\ f.body.finish_reason = (IF IsFinal(l) THEN "stop" ELSE Null)

\* the frames that answer backend lines: all but the closing sentinel the
\* translating gateway adds itself
LineAnswers ==
    IF variant = "ollama" /\ pc = "done"
    THEN SubSeq(frames, 1, Len(frames) - 1)
    ELSE frames

RECURSIVE LastUser(_)
\* the content of the last message with role user, "" when there is none
LastUser(msgs) ==
    IF Len(msgs) = 0 THEN <<>>
    ELSE IF msgs[Len(msgs)].role = "user" THEN msgs[Len(msgs)].content
    ELSE LastUser(SubSeq(msgs, 1, Len(msgs) - 1))

\* the 200 answer of a backend that generates text g to a non-streaming call
SuccessAnswer(v, g) ==
    [net |-> "ok", status |-> 200, json |-> TRUE,
     body |-> IF v = "groq" THEN GroqCompletion(g, "stop")
              ELSE Obj({"response", "done"}, g, TRUE)]

\* the backend call failed: no connection, or a non-2xx answer
BackendFailed == backendAnswer.net = "fail" \/ backendAnswer.status # 200

\* ------------------------------------------------------------------ claims

\* C1: every streaming request's frame sequence, once the stream has ended
\* (backend completed, sent nothing, or failed), contains the sentinel
\* 'data: [DONE]' exactly once, as its last frame.
C1_SentinelOnceAndLast ==
    StreamEnded =>
        /\ Count(frames, Sentinel) = 1
        /\ frames[Len(frames)] = Sentinel

\* C2: when the backend line iterator fails after n >= 0 lines, the client
\* stream is still closed with the sentinel after the n relayed chunks, and
\* the client sees no error.
C2_DropStillClosesWithSentinel ==
    (pc = "aborted" /\ raised = "ChunkedEncodingError") =>
        /\ Len(frames) = Len(NonEmpty(backendLines)) + 1
        /\ frames[Len(frames)] = Sentinel
        /\ \A i \in 1..(Len(frames) - 1) :
              FrameMatches(frames[i], NonEmpty(backendLines)[i])

\* C3 as stated: every line received from the backend has produced exactly
\* one frame, the i-th frame answering the i-th line.
C3_OneFramePerLine ==
    pc \in {"streaming", "done", "aborted"} =>
        /\ Len(LineAnswers) = Len(backendLines)
        /\ \A i \in 1..Len(backendLines) :
              FrameMatches(LineAnswers[i], backendLines[i])

\* C3 amended: every non-empty line read and relayed has produced exactly
\* one frame, the i-th frame answering the i-th such line; empty lines
\* produce none, and a non-empty line that is not JSON (translating
\* gateway) produces none and ends the stream.
C3_OneFramePerNonEmptyLine ==
    pc \in {"streaming", "done", "aborted"} =>
        /\ Len(LineAnswers) = Len(Relayed(backendLines))
        /\ \A i \in 1..Len(LineAnswers) :
              FrameMatches(LineAnswers[i], Relayed(backendLines)[i])
        /\ \A i \in 1..Len(backendLines) :
              LineRaises(variant, backendLines[i]) =>
                  (i = Len(backendLines) /\ pc = "aborted")

C3_Witness ==
    /\ pc = "done"
    /\ Len(backendLines) = 3
    /\ backendLines[2] = EmptyLine
    /\ Len(LineAnswers) = 2
    /\ LineAnswers[1] # LineAnswers[2]

\* C4: when a backend that answers 200 has streamed its whole generation
\* and the stream has ended, the text the client assembles from the chunks'
\* delta.content equals the message content the non-streaming path returns
\* for the same generation.
C4_StreamTextEqualsCompletionText ==
    (pc = "done" /\ backendAnswer.status = 200 /\ HasFinal(backendLines)) =>
        /\ NormalRaises(variant, SuccessAnswer(variant, BackendText(backendLines))) = ""
        /\ ClientText(frames) =
              NormalBody(variant,
                  SuccessAnswer(variant, BackendText(backendLines)),
                  idsDrawn + 1).message.content

C4_Witness ==
    /\ pc = "done"
    /\ variant = "ollama"
    /\ backendAnswer.status = 200
    /\ HasFinal(backendLines)
    /\ ClientText(frames) = <<"a", "b">>

\* C5: a non-streaming request whose backend call succeeded is answered
\* with exactly one completion object whose finish_reason is not null.
C5_OneCompletionWithFinishReason ==
    (pc \in {"responded", "error"} /\ backendCalls = 1 /\ ~BackendFailed) =>
        /\ pc = "responded"
        /\ status = 200
        /\ responses = 1
        /\ body.object = "chat.completion"
        /\ body.finish_reason # Null

C5_Witness ==
    /\ pc = "responded"
    /\ variant = "ollama"
    /\ ~BackendFailed
    /\ body.message.content = <<"a", "b">>

\* C6: a collection whose query raises is skipped: the request is not
\* aborted by it.
C6_RaisingCollectionIsSkipped ==
    raised = "RetrievalError" => (pc # "error" /\ status # 500)

\* C7: with no collection registered, or with every query failing, the
\* context is empty and the request goes on to the backend: it has a payload
\* whose system message carries the prefix alone.
C7_EmptyContextStillDispatches ==
    (pc \notin {"idle", "retrieving"}
        /\ (collections = <<>>
            \/ (raised = "RetrievalError" /\ Len(collections) = 1))) =>
        payload = (IF variant = "groq" THEN GroqPayload(data, <<>>)
                   ELSE OllamaPayload(data, <<>>))

\* C8: the retrieval query is the content of the last message with role
\* user, and empty when there is none.
C8_QueryIsLastUserMessage ==
    pc # "idle" => user_query = LastUser(GetMessages(data))

C10_BackendErrorPassedThrough ==
    (pc \in {"responded", "error"} /\ backendCalls = 1 /\ BackendFailed) =>
        /\ status # 200
        /\ backendAnswer.net = "ok" =>
              (status = backendAnswer.status /\ body = backendAnswer.body)

\* the request has been handled to its end: answered, failed, or its stream
\* closed, aborted or cancelled
RequestEnded == pc \in {"responded", "error", "done", "aborted", "cancelled"}

\* C11: every request that passed normalization has caused exactly one
\* call to the backend once it has been handled, streaming or not, also when
\* that call failed; at no time has it caused more than one.
C11_ExactlyOneBackendCall ==
    /\ backendCalls <= 1
    /\ RequestEnded => backendCalls = 1

\* the prompt text of messages that follow another message: each on a new
\* line, as role, colon, content
Following(msgs) ==
    Concat([i \in 1..Len(msgs) |-> <<NL, msgs[i].role, ": ">> \o msgs[i].content])

\* C12: the message sequence sent to the backend is the synthetic system
\* message (prefix, blank line, retrieved context) at index 0, followed by
\* the inbound messages unchanged and in order, inbound system messages
\* included; the translating gateway sends it flattened, in that order.
C12_SystemMessageThenInbound ==
    payload # None =>
        IF variant = "groq"
        THEN /\ Len(payload.messages) = Len(GetMessages(data)) + 1
             /\ payload.messages[1].role = "system"
             /\ payload.messages[1].content =
                   <<SystemPrefix, NL, NL>> \o RagContext(contexts)
             /\ \A i \in 1..Len(GetMessages(data)) :
                   payload.messages[i + 1] = GetMessages(data)[i]
        ELSE payload.prompt =
                 <<"system", ": ", SystemPrefix, NL, NL>> \o RagContext(contexts)
                     \o Following(GetMessages(data))

C12_Witness ==
    /\ payload # None
    /\ variant = "groq"
    /\ Len(GetMessages(data)) = 2
    /\ GetMessages(data)[1].role = "system"
    /\ contexts # <<>>

\* the passages the store ranks first for collection c and the query: its
\* first K, or all it has when those are fewer; none when c holds no document
Best(c) ==
    IF chroma[c] = "filled"
    THEN [j \in 1..Min(K, Len(Ranked(c, user_query))) |->
             <<Ranked(c, user_query)[j]>>]
    ELSE <<>>

\* passages as one text: the first, then each further one after a blank line
Separated(ps) ==
    IF Len(ps) = 0 THEN <<>>
    ELSE ps[1] \o Concat([j \in 1..(Len(ps) - 1) |-> <<NL, NL>> \o ps[j + 1]])

\* the context text the payload carries after the prefix and the blank line
PayloadContext ==
    IF variant = "groq"
    THEN SubSeq(payload.messages[1].content, 4, Len(payload.messages[1].content))
    ELSE SubSeq(payload.prompt, 6,
                Len(payload.prompt) - Len(Following(GetMessages(data))))

\* C13: what get_rag_context returns is the passages of all registered
\* collections, collection after collection in the registry's enumeration
\* order, within a collection in the store's rank order, at most K = 2 per
\* collection, joined by a blank line; nothing is re-ranked, de-duplicated
\* or cut.
C13_ContextInRegistryAndRankOrder ==
    payload # None =>
        /\ contexts = Concat([i \in 1..Len(registry) |-> Best(registry[i])])
        /\ PayloadContext = Separated(contexts)

C13_Witness ==
    /\ payload # None
    /\ registry = <<"B", "A">>
    /\ Len(contexts) = 3
    /\ contexts[1] = contexts[2]
    /\ contexts[3] = <<"a2">>

\* the line a message is owed in a prompt
Item(msg) == <<msg.role, ": ">> \o msg.content

RECURSIVE Start(_, _)
\* where the line of message i starts in a prompt of msgs: after the lines
\* of the messages before it and one newline for each
Start(msgs, i) ==
    IF i = 1 THEN 1 ELSE Start(msgs, i - 1) + Len(Item(msgs[i - 1])) + 1

\* prompt p is msgs flattened: the line of each message at its place, one
\* newline before every line but the first, and nothing else
Flattened(p, msgs) ==
    /\ Len(msgs) = 0 => p = <<>>
    /\ Len(msgs) > 0 =>
          Len(p) = Start(msgs, Len(msgs)) + Len(Item(msgs[Len(msgs)])) - 1
    /\ \A i \in 1..Len(msgs) :
          /\ SubSeq(p, Start(msgs, i), Start(msgs, i) + Len(Item(msgs[i])) - 1)
                = Item(msgs[i])
          /\ i > 1 => p[Start(msgs, i) - 1] = NL

\* the conversation the specification gives as an example
ExampleConversation ==
    <<[role |-> "user", content |-> <<"hi">>],
      [role |-> "assistant", content |-> <<"hello">>],
      [role |-> "user", content |-> <<"how are you">>]>>

\* C14: the translating gateway flattens a message sequence into a prompt of
\* one 'role: content' line per message, in message order, with a single
\* newline between consecutive lines and none before the first or after the
\* last: so for the sequence it sends (the system message and the inbound
\* messages), for the inbound messages alone (the gateway without
\* retrieval), and for the example of three messages, which gives three
\* lines.  The prompt is looked at when the handler has built it and
\* branches on stream.
C14_PromptIsOneLinePerMessage ==
    /\ Prompt(ExampleConversation) =
          <<"user", ": ", "hi", NL, "assistant", ": ", "hello", NL,
            "user", ": ", "how are you">>
    /\ pc \in {"open", "calling"} =>
          /\ Flattened(Prompt(GetMessages(data)), GetMessages(data))
          /\ variant = "ollama" =>
                Flattened(payload.prompt,
                          <<SystemMessage(RagContext(contexts))>>
                              \o GetMessages(data))

C14_Witness ==
    /\ pc = "open"
    /\ variant = "ollama"
    /\ Len(GetMessages(data)) = 2
    /\ GetMessages(data)[1].role = "user"
    /\ GetMessages(data)[2].role = "assistant"
    /\ Len(contexts) = 3

\* C15: once the client has disconnected from a streaming response, the
\* gateway reads nothing more from the backend: no step taken after the
\* disconnect consumes a further backend line.
C15_NoLineReadAfterDisconnect ==
    [][client = "gone" => backendLines' = backendLines]_vars

\* C16: of requests handled side by side, each is answered from its own
\* request and its own backend call only: the call it made carried the end
\* of its own conversation, and the text of its chunks, or of its
\* completion, is the answer to that call; nothing one request wrote has
\* reached another.
C16_OwnRequestOwnCall ==
    \A t \in Tasks :
        /\ tasks[t].sent # None =>
              EchoText(variant, tasks[t].sent) = LastUser(GetMessages(tasks[t].data))
        /\ \A i \in 1..Len(tasks[t].frames) :
              (IsChunkFrame(tasks[t].frames[i])
                  /\ tasks[t].frames[i].body.delta # <<>>) =>
                  tasks[t].frames[i].body.delta = LastUser(GetMessages(tasks[t].data))
        /\ tasks[t].pc = "done" =>
              ClientText(tasks[t].frames) = LastUser(GetMessages(tasks[t].data))
        /\ tasks[t].pc = "responded" =>
              tasks[t].body.message.content = LastUser(GetMessages(tasks[t].data))

C16_Witness ==
    /\ variant = "ollama"
    /\ tasks[1].pc = "done"
    /\ tasks[2].pc = "done"
    /\ tasks[1].data # tasks[2].data
    /\ tasks[1].frames[1].body.id.hex = 1
    /\ tasks[2].frames[1].body.id.hex = 2
    /\ tasks[1].frames[2].body.id.hex = 3

\* C17: handling a gateway request leaves the collection registry and the
\* vector store's collections as they were: no step of the handler changes
\* either.
C17_RegistryAndStoreUnchanged ==
    [][registry' = registry /\ chroma' = chroma]_vars

\* the backend event of line l says done=true
EventDone(l) == "done" \in l.body.keys /\ l.body.done

\* C18: in the translating gateway every chunk handed to the client has
\* finish_reason 'stop' exactly when the backend event it answers has
\* done=true, and null otherwise; so in a stream that a done event ended,
\* the last chunk before the sentinel has a finish_reason and every chunk
\* before it has none.
C18_FinishReasonFollowsDone ==
    variant = "ollama" =>
        /\ \A i \in 1..Len(LineAnswers) :
              (LineAnswers[i].body.finish_reason = "stop")
                  <=> EventDone(Relayed(backendLines)[i])
        /\ \A i \in 1..Len(LineAnswers) :
              LineAnswers[i].body.finish_reason \in {"stop", Null}
        /\ (pc = "done" /\ HasFinal(backendLines)) =>
              /\ frames[Len(frames)] = Sentinel
              /\ Len(LineAnswers) >= 1
              /\ LineAnswers[Len(LineAnswers)].body.finish_reason # Null
              /\ \A i \in 1..(Len(LineAnswers) - 1) :
                    LineAnswers[i].body.finish_reason = Null

C18_Witness ==
    /\ variant = "ollama"
    /\ pc = "done"
    /\ Len(frames) = 3
    /\ frames[1].body.finish_reason = Null
    /\ frames[1].body.delta = <<"a">>
    /\ frames[2].body.finish_reason = "stop"
    /\ frames[3] = Sentinel

\* C19: in the translating gateway the completion id is drawn once per
\* request: all chunks handed to the client of one streaming request carry
\* the same id.
C19_OneIdPerRequest ==
    variant = "ollama" =>
        \A i, j \in 1..Len(frames) :
            (IsChunkFrame(frames[i]) /\ IsChunkFrame(frames[j])) =>
                frames[i].body.id = frames[j].body.id

\* C20: streaming is incremental: whenever the gateway reads a further
\* backend line, the frames of all lines it relayed before have been handed
\* to the client and it holds none; after the read it holds at most the one
\* frame of the line just read.  It never collects the response.
C20_SentBeforeNextRead ==
    [][backendLines' # backendLines =>
          /\ held = <<>>
          /\ Len(frames) = Len(Relayed(backendLines))
          /\ Len(held') <= 1]_vars

C20_Witness ==
    /\ pc = "streaming"
    /\ client = "connected"
    /\ ~HasFinal(backendLines)
    /\ Len(backendLines) = 2
    /\ Len(frames) = 2
    /\ held = <<>>

\* the conversation of the request holds no message with role user
NoUserMessage ==
    \A i \in 1..Len(GetMessages(data)) : GetMessages(data)[i].role # "user"

\* C21: for a request whose messages hold no message with role user (an
\* empty sequence included), retrieval yields an empty context whatever the
\* registered collections hold, and the request goes on to the backend: its
\* payload carries the system message with the prefix alone.
C21_NoUserMessageNoContext ==
    (pc \notin {"idle", "retrieving", "error"} /\ NoUserMessage) =>
        /\ contexts = <<>>
        /\ PayloadContext = <<>>

\* C22: every optional sampling parameter the request carries is in the
\* backend request with its value as it came, and the backend request holds
\* no sampling parameter the request did not carry.
C22_SamplingParamsForwarded ==
    payload # None =>
        payload.params = {x \in data.params : x[1] \in SamplingParams}

\* where the streaming translator of the request is: 1 Open (called, no
\* backend event read yet), 2 Emitting (an event has been read, the loop
\* goes on), 3 Done (the loop is left: by the stream's end, an exception or
\* the server closing the generator); 0 before the stream is set up
Phase ==
    IF pc \in {"closing", "done", "aborted", "cancelled"} THEN 3
    ELSE IF pc \in {"streaming", "yielding"} /\ NonEmpty(backendLines) # <<>> THEN 2
    ELSE IF pc \in {"open", "streaming", "yielding"} THEN 1
    ELSE 0

C24_StagesInOrder ==
    [][/\ ci' # ci =>
             /\ pc = "retrieving" /\ ci' = ci + 1
             /\ user_query = UserQuery(data)
             /\ payload = None /\ backendCalls = 0
             /\ SubSeq(contexts', 1, Len(contexts)) = contexts
             /\ \A j \in (Len(contexts) + 1)..Len(contexts') :
                   \E r \in 1..Len(Ranked(collections[ci], user_query)) :
                       contexts'[j] = <<Ranked(collections[ci], user_query)[r]>>
       /\ payload' # payload =>
             /\ ci > Len(collections)
             /\ payload = None /\ backendCalls = 0
       /\ backendCalls' # backendCalls =>
             /\ ci > Len(collections)
             /\ payload # None /\ payload' = payload
             /\ backendCalls = 0 /\ backendCalls' = 1]_vars

C24_Witness ==
    /\ backendCalls = 1
    /\ Len(collections) = 2
    /\ ci = 3
    /\ Len(contexts) = 3
    /\ user_query = <<"q2">>

\* C25: every streaming response terminates: when the backend sends its
\* lines and closes and the client keeps reading, a stream that has been set
\* up reaches its end, with a frame handed over for every line relayed,
\* unless an exception has ended it before.
C25_StreamTerminates ==
    (pc = "open") ~>
        \/ pc = "done" /\ Len(LineAnswers) = Len(Relayed(backendLines))
        \/ raised # ""

C25_Witness ==
    /\ pc = "done"
    /\ raised = ""
    /\ client = "connected"
    /\ Len(backendLines) = MaxLines
    /\ Len(LineAnswers) = 2

\* the model the running gateway is configured with
ConfiguredModel == IF variant = "groq" THEN GROQ_MODEL ELSE OLLAMA_MODEL

\* C26: the model named in the backend request, and in every chunk and
\* completion the translating gateway builds, is the configured one; the
\* model a request names is never the one called or reported.
C26_ConfiguredModelOnly ==
    /\ payload # None => payload.model = ConfiguredModel
    /\ variant = "ollama" =>
          /\ \A i \in 1..Len(frames \o held) :
                IsChunkFrame((frames \o held)[i]) =>
                    (frames \o held)[i].body.model = ConfiguredModel
          /\ pc = "responded" => body.model = ConfiguredModel

C26_Witness ==
    /\ variant = "ollama"
    /\ data # None
    /\ "model" \in data.keys
    /\ data.model # ConfiguredModel
    /\ pc = "done"
    /\ Len(frames) = 3

\* the messages of a sequence whose content opens with the instruction prefix
Synthetic(msgs) ==
    {i \in 1..Len(msgs) :
        /\ msgs[i].role = "system"
        /\ msgs[i].content # <<>>
        /\ msgs[i].content[1] = SystemPrefix}

\* the newlines the retrieved context brings into the text that carries it:
\* a blank line between consecutive passages
ContextNewlines == IF contexts = <<>> THEN 0 ELSE 2 * (Len(contexts) - 1)

\* C27: every request sent to the backend carries exactly one synthetic
\* system message: one more message than the request held, or one more
\* 'role: content' item in the prompt; with no context retrieved the message
\* is still there, its content the prefix and the blank line.  The prompt's
\* text has two more newlines than it has items, and those of the context.
C27_OneSystemMessageInjected ==
    payload # None =>
        IF variant = "groq"
        THEN /\ Len(payload.messages) = Len(GetMessages(data)) + 1
             /\ Cardinality(Synthetic(payload.messages)) = 1
             /\ contexts = <<>> =>
                   payload.messages[1].content = <<SystemPrefix, NL, NL>>
        ELSE /\ Count(payload.prompt, ": ") = Len(GetMessages(data)) + 1
             /\ Count(payload.prompt, SystemPrefix) = 1
             /\ Count(payload.prompt, NL) =
                   Len(GetMessages(data)) + 2 + ContextNewlines
             /\ contexts = <<>> =>
                   SubSeq(payload.prompt, 1, 5) =
                       <<"system", ": ", SystemPrefix, NL, NL>>

C27_Witness ==
    /\ payload # None
    /\ variant = "ollama"
    /\ pc = "calling"
    /\ contexts = <<>>
    /\ Len(GetMessages(data)) = 2

\* C27 as stated: the prompt the translating gateway sends has one text line
\* per message and one for the system message.
C27_PromptLinesAreMessagesPlusOne ==
    (payload # None /\ variant = "ollama") =>
        Count(payload.prompt, NL) + 1 = Len(GetMessages(data)) + 1

\* C28: while the management UI creates and deletes collections, a
\* statement at a time, beside the gateway's requests, every collection the
\* gateway queries (an id get_all_collections gave it) exists in the vector
\* store when get_chroma_db is called for it.
C28_QueriedCollectionsExist ==
    [][(pc = "retrieving" /\ ci' = ci + 1) =>
            collections[ci] \in DOMAIN chroma]_vars

====
